---- MODULE Spec2Model ----
(***************************************************************************)
(* A model of the text functions of src/src/strings.rs (sprig-rust).       *)
(*                                                                         *)
(* A Rust String is modelled as a sequence of characters; a character is   *)
(* a TLA+ string: a one-letter string for an ASCII character, and the      *)
(* code-point label "U+XXXX" for a character that UTF-8 encodes in two     *)
(* bytes.  Lengths and slice bounds are BYTE offsets, as in the source:    *)
(* s.len() is ByteLen(s) and &s[b..e] is Slice(s, b, e), which panics when *)
(* a bound is out of range or falls inside a character.                    *)
(*                                                                         *)
(* A usize is 64 bits wide, beyond the integers TLC computes with, so a    *)
(* usize is modelled as three limbs <<h, m, l>> in base 10^9, standing for *)
(* h * 10^18 + m * 10^9 + l: 2^64 - 1 = 18446744073709551615 is            *)
(* <<18, 446744073, 709551615>>.  Arithmetic on usize is limb arithmetic   *)
(* modulo 2^64.                                                            *)
(*                                                                         *)
(* A result is a record [kind, val]: kind "Ok" (val the returned value),   *)
(* "Err" (val a one-element sequence holding the message) or "Panic"       *)
(* (the call unwinds instead of returning).                                *)
(***************************************************************************)
EXTENDS Integers, Sequences, FiniteSets

VARIABLES pc, fn, ints, strs, args, out

vars == <<pc, fn, ints, strs, args, out>>

-----------------------------------------------------------------------------
(* Bounds of the model.                                                    *)

\* longest text (in characters) handed to abbrev, abbrevboth and substring
MaxText == 11
\* integer arguments range over -MaxNeg .. MaxInt
MaxInt == 12
MaxNeg == 2
\* longest string handed to untitle and trim
MaxWord == 5
\* longest string handed to trim_all, trim_suffix, trim_prefix
MaxStr == 4
\* longest pattern (character set, suffix, prefix, separator)
MaxPat == 2
\* longest string handed to split
MaxSplit == 9
\* longest argument list handed to join
MaxArgs == 3

-----------------------------------------------------------------------------
(* Characters and strings.                                                 *)

\* the base of a usize's limbs
LimbBase == 1000000000

\* the number of values of usize, 2^64 = 18446744073709551616
UsizeModulus == <<18, 446744073, 709551616>>

\* the usize of a non-negative integer
FromInt(n) == <<0, n \div LimbBase, n % LimbBase>>

\* a usize small enough to be an integer of the model, and that integer
Fits(a) == a[1] = 0 /\ a[2] <= 1
ToInt(a) == a[2] * LimbBase + a[3]

\* a < b on usize
ULess(a, b) ==
    \/ a[1] < b[1]
    \/ a[1] = b[1] /\ a[2] < b[2]
    \/ a[1] = b[1] /\ a[2] = b[2] /\ a[3] < b[3]

\* a + b on limbs, carries propagated (no reduction modulo 2^64)
LimbAdd(a, b) ==
    LET l == a[3] + b[3]
        m == a[2] + b[2] + (l \div LimbBase)
    IN  <<a[1] + b[1] + (m \div LimbBase), m % LimbBase, l % LimbBase>>

\* a - b on limbs, borrows propagated, for a >= b
LimbSub(a, b) ==
    LET l == a[3] - b[3]
        bl == IF l < 0 THEN 1 ELSE 0
        m == a[2] - b[2] - bl
        bm == IF m < 0 THEN 1 ELSE 0
    IN  <<a[1] - b[1] - bm, m + bm * LimbBase, l + bl * LimbBase>>

\* the characters of the model
Chars == {"a", "b", "f", "o", "r", "i", "A", "B", " ", "/", ".", "_", "-",
          "0", "1", "2", "3", "4", "5", "6", "7", "8", "9",
          "U+00E9", "U+00C9", "U+00A0", "U+0130", "U+0307"}

\* characters UTF-8 encodes in two bytes
TwoByte == {"U+00E9", "U+00C9", "U+00A0", "U+0130", "U+0307"}

\* char::len_utf8
Utf8Len(c) == IF c \in TwoByte THEN 2 ELSE 1

\* char::is_whitespace (the White_Space property)
IsWhitespace(c) == c \in {" ", "U+00A0"}

\* char::to_lowercase: the lower-case mapping, a sequence of characters
\* (U+0130 maps to two: i followed by the combining dot above U+0307)
ToLowercase(c) ==
    CASE c = "A" -> <<"a">>
      [] c = "B" -> <<"b">>
      [] c = "U+00C9" -> <<"U+00E9">>
      [] c = "U+0130" -> <<"i", "U+0307">>
      [] OTHER -> <<c>>

IsAscii(s) == \A i \in 1..Len(s) : s[i] \notin TwoByte

\* str::len: the length in bytes
RECURSIVE ByteLen(_)
ByteLen(s) == IF s = <<>> THEN 0 ELSE Utf8Len(Head(s)) + ByteLen(Tail(s))

\* str::is_char_boundary
IsCharBoundary(s, i) == \E k \in 0..Len(s) : ByteLen(SubSeq(s, 1, k)) = i

\* the number of characters that end at or before byte offset i
CharsBefore(s, i) ==
    Cardinality({k \in 1..Len(s) : ByteLen(SubSeq(s, 1, k)) <= i})

Ok(v) == [kind |-> "Ok", val |-> v]
Err(m) == [kind |-> "Err", val |-> <<m>>]
Panic == [kind |-> "Panic", val |-> <<>>]
\* Option::None, and the result slot before a call has returned
None == [kind |-> "None", val |-> <<>>]

\* &s[b..e] on byte offsets (usize): panics unless b <= e <= s.len() and both
\* lie on character boundaries
Slice(s, b, e) ==
    IF /\ ~ULess(e, b)
       /\ ~ULess(FromInt(ByteLen(s)), e)
       /\ IsCharBoundary(s, ToInt(b))
       /\ IsCharBoundary(s, ToInt(e))
    THEN Ok(SubSeq(s, CharsBefore(s, ToInt(b)) + 1, CharsBefore(s, ToInt(e))))
    ELSE Panic

\* format!("{}...", x) and friends on a slice that may have panicked
Fmt(pre, r, post) == IF r.kind = "Ok" THEN Ok(pre \o r.val \o post) ELSE r

Dots == <<".", ".", ".">>

\* `x as usize` on an i64: x for x >= 0 and 2^64 + x for x < 0
AsUsize(x) == IF x >= 0 THEN FromInt(x) ELSE LimbSub(UsizeModulus, FromInt(0 - x))

\* usize addition and subtraction as the release build computes them
\* (wrapping modulo 2^64); the debug build panics where Underflows(a, b)
UAdd(a, b) ==
    LET r == LimbAdd(a, b)
    IN  IF ULess(r, UsizeModulus) THEN r ELSE LimbSub(r, UsizeModulus)
USub(a, b) ==
    IF ULess(a, b) THEN LimbSub(LimbAdd(a, UsizeModulus), b) ELSE LimbSub(a, b)
Underflows(a, b) == ULess(a, b)

\* cmp::min on usize
UMin(a, b) == IF ULess(b, a) THEN b ELSE a

\* s.len() as the usize it is
ULen(s) == FromInt(ByteLen(s))

Min(a, b) == IF a < b THEN a ELSE b

StartsWith(s, p) == Len(p) <= Len(s) /\ SubSeq(s, 1, Len(p)) = p
EndsWith(s, p) == Len(p) <= Len(s) /\ SubSeq(s, Len(s) - Len(p) + 1, Len(s)) = p

-----------------------------------------------------------------------------
(* The functions.                                                          *)

\* abbrev with the length test off by one: a text exactly width bytes long
\* is returned whole
abbrev_le(width, s) ==
    IF width < 4 \/ ~ULess(AsUsize(width), ULen(s))
    THEN Ok(s)
    ELSE Fmt(<<>>, Slice(s, FromInt(0), USub(AsUsize(width), FromInt(3))), Dots)

abbrev(width, s) ==
    IF width < 4 \/ ULess(ULen(s), AsUsize(width))
    THEN Ok(s)
    ELSE Fmt(<<>>, Slice(s, FromInt(0), USub(AsUsize(width), FromInt(3))), Dots)

\* abbrevboth_plan with the middle slice ended three bytes too far (the
\* right boundary of the test reused as the end of the slice)
abbrevboth_plan_long(left, right, s) ==
    LET offset == UMin(AsUsize(left), ULen(s))
        max_width == UMin(AsUsize(right), ULen(s))
        three == FromInt(3)
        six == FromInt(6)
    IN  IF \/ ULess(max_width, FromInt(4))
           \/ (ULess(FromInt(0), offset) /\ ULess(max_width, FromInt(7)))
           \/ ~ULess(max_width, ULen(s))
        THEN [branch |-> "unchanged", b |-> FromInt(0), e |-> ULen(s), under |-> FALSE]
        ELSE IF ~ULess(FromInt(4), offset)
        THEN [branch |-> "head", b |-> FromInt(0), e |-> USub(max_width, three),
              under |-> Underflows(max_width, three)]
        ELSE IF ULess(USub(UAdd(offset, max_width), three), ULen(s))
        THEN [branch |-> "middle", b |-> offset,
              e |-> USub(UAdd(offset, max_width), three),
              under |-> Underflows(UAdd(offset, max_width), three)]
        ELSE [branch |-> "tail", b |-> USub(ULen(s), USub(max_width, three)),
              e |-> ULen(s),
              under |-> Underflows(UAdd(offset, max_width), three)
                        \/ Underflows(max_width, three)
                        \/ Underflows(ULen(s), USub(max_width, three))]

\* abbrevboth's branch, the byte range [b, e) it slices from s, and whether a
\* subtraction it evaluates on the way underflows
abbrevboth_plan(left, right, s) ==
    LET offset == UMin(AsUsize(left), ULen(s))
        max_width == UMin(AsUsize(right), ULen(s))
        three == FromInt(3)
        six == FromInt(6)
    IN  IF \/ ULess(max_width, FromInt(4))
           \/ (ULess(FromInt(0), offset) /\ ULess(max_width, FromInt(7)))
           \/ ~ULess(max_width, ULen(s))
        THEN [branch |-> "unchanged", b |-> FromInt(0), e |-> ULen(s), under |-> FALSE]
        ELSE IF ~ULess(FromInt(4), offset)
        THEN [branch |-> "head", b |-> FromInt(0), e |-> USub(max_width, three),
              under |-> Underflows(max_width, three)]
        ELSE IF ULess(USub(UAdd(offset, max_width), three), ULen(s))
        THEN [branch |-> "middle", b |-> offset,
              e |-> USub(UAdd(offset, max_width), six),
              under |-> Underflows(UAdd(offset, max_width), three)
                        \/ Underflows(UAdd(offset, max_width), six)]
        ELSE [branch |-> "tail", b |-> USub(ULen(s), USub(max_width, three)),
              e |-> ULen(s),
              under |-> Underflows(UAdd(offset, max_width), three)
                        \/ Underflows(max_width, three)
                        \/ Underflows(ULen(s), USub(max_width, three))]

abbrevboth(left, right, s) ==
    LET p == abbrevboth_plan(left, right, s)
    IN  CASE p.branch = "unchanged" -> Ok(s)
          [] p.branch = "head" -> Fmt(<<>>, Slice(s, p.b, p.e), Dots)
          [] p.branch = "middle" -> Fmt(Dots, Slice(s, p.b, p.e), Dots)
          [] p.branch = "tail" -> Fmt(Dots, Slice(s, p.b, p.e), <<>>)

\* untitle's map with the flag never cleared: every character is lower-cased
RECURSIVE untitle_from_all(_, _)
untitle_from_all(s, ws) ==
    IF s = <<>> THEN <<>>
    ELSE IF IsWhitespace(Head(s)) THEN <<Head(s)>> \o untitle_from_all(Tail(s), TRUE)
    ELSE ToLowercase(Head(s)) \o untitle_from_all(Tail(s), TRUE)

\* the closure of untitle's map, carried along the characters with its flag ws
RECURSIVE untitle_from(_, _)
untitle_from(s, ws) ==
    IF s = <<>> THEN <<>>
    ELSE IF IsWhitespace(Head(s)) THEN <<Head(s)>> \o untitle_from(Tail(s), TRUE)
    ELSE IF ws THEN ToLowercase(Head(s)) \o untitle_from(Tail(s), FALSE)
    ELSE <<Head(s)>> \o untitle_from(Tail(s), FALSE)

untitle(s) == Ok(untitle_from(s, TRUE))

\* substring with len taken as a number of bytes, not an end offset
substring_count(start, len, s) ==
    LET start_ == IF start < 0 THEN FromInt(0) ELSE AsUsize(start)
        len_ == IF len < 0 THEN ULen(s) ELSE AsUsize(len)
    IN  IF ULess(len_, start_) \/ ULess(ULen(s), start_) \/ ULess(ULen(s), len_)
        THEN Ok(s)
        ELSE Slice(s, start_, UMin(UAdd(start_, len_), ULen(s)))

substring(start, len, s) ==
    LET start_ == IF start < 0 THEN FromInt(0) ELSE AsUsize(start)
        len_ == IF len < 0 THEN ULen(s) ELSE AsUsize(len)
    IN  IF ULess(len_, start_) \/ ULess(ULen(s), start_) \/ ULess(ULen(s), len_)
        THEN Ok(s)
        ELSE Slice(s, start_, len_)

\* str::trim_left_matches / trim_right_matches with a set of characters
RECURSIVE TrimLeftChars(_, _)
TrimLeftChars(s, set) ==
    IF s # <<>> /\ Head(s) \in set THEN TrimLeftChars(Tail(s), set) ELSE s

RECURSIVE TrimRightChars(_, _)
TrimRightChars(s, set) ==
    IF s # <<>> /\ s[Len(s)] \in set
    THEN TrimRightChars(SubSeq(s, 1, Len(s) - 1), set)
    ELSE s

\* str::trim_matches
TrimMatches(s, set) == TrimRightChars(TrimLeftChars(s, set), set)

\* the characters of the model that are whitespace
WhitespaceChars == {c \in Chars : IsWhitespace(c)}

\* trim that strips the left end only
trim_left_only(s) == Ok(TrimLeftChars(s, WhitespaceChars))

trim(s) == Ok(TrimMatches(s, WhitespaceChars))

\* trim_all that strips one character at most from each end
trim_all_once(substr, s) ==
    LET x == {substr[i] : i \in 1..Len(substr)}
        l == IF s # <<>> /\ Head(s) \in x THEN Tail(s) ELSE s
    IN  Ok(IF l # <<>> /\ l[Len(l)] \in x THEN SubSeq(l, 1, Len(l) - 1) ELSE l)

trim_all(substr, s) ==
    LET x == {substr[i] : i \in 1..Len(substr)}
    IN  Ok(TrimMatches(s, x))

\* str::trim_right_matches with a string pattern: every trailing match goes
RECURSIVE TrimRightMatches(_, _)
TrimRightMatches(s, pat) ==
    IF pat # <<>> /\ EndsWith(s, pat)
    THEN TrimRightMatches(SubSeq(s, 1, Len(s) - Len(pat)), pat)
    ELSE s

\* str::trim_left_matches with a string pattern: every leading match goes
RECURSIVE TrimLeftMatches(_, _)
TrimLeftMatches(s, pat) ==
    IF pat # <<>> /\ StartsWith(s, pat)
    THEN TrimLeftMatches(SubSeq(s, Len(pat) + 1, Len(s)), pat)
    ELSE s

trim_suffix(substr, s) == Ok(TrimRightMatches(s, substr))

trim_prefix(substr, s) == Ok(TrimLeftMatches(s, substr))

\* the Display form of an integer (format!("{}", i), to_string)
Digits == <<"0", "1", "2", "3", "4", "5", "6", "7", "8", "9">>

RECURSIVE DecimalNat(_)
DecimalNat(n) ==
    IF n < 10 THEN <<Digits[n + 1]>>
    ELSE Append(DecimalNat(n \div 10), Digits[(n % 10) + 1])

Decimal(n) == IF n < 0 THEN <<"-">> \o DecimalNat(-n) ELSE DecimalNat(n)

\* str::split with a non-empty string pattern: the pieces between the
\* leftmost non-overlapping matches; cur is the piece being read
RECURSIVE SplitScan(_, _, _)
SplitScan(sep, rest, cur) ==
    IF rest = <<>> THEN <<cur>>
    ELSE IF StartsWith(rest, sep)
    THEN <<cur>> \o SplitScan(sep, SubSeq(rest, Len(sep) + 1, Len(rest)), <<>>)
    ELSE SplitScan(sep, Tail(rest), Append(cur, Head(rest)))

\* a split that drops a trailing empty piece
Split_no_trailing(sep, s) ==
    LET all == IF sep = <<>>
               THEN <<(<<>>)>> \o [i \in 1..Len(s) |-> <<s[i]>>] \o <<(<<>>)>>
               ELSE SplitScan(sep, s, <<>>)
    IN  IF Len(all) > 1 /\ all[Len(all)] = <<>>
        THEN SubSeq(all, 1, Len(all) - 1)
        ELSE all

\* str::split: the empty pattern matches at every character boundary
Split(sep, s) ==
    IF sep = <<>>
    THEN <<(<<>>)>> \o [i \in 1..Len(s) |-> <<s[i]>>] \o <<(<<>>)>>
    ELSE SplitScan(sep, s, <<>>)

\* format!("_{}", i)
SplitKey(i) == <<"_">> \o Decimal(i)

\* the pairs (format!("_{}", i), piece) collected into a HashMap: a later
\* pair replaces an earlier one under the same key
split(sep, orig) ==
    LET pieces == Split(sep, orig)
        keys == {SplitKey(i - 1) : i \in 1..Len(pieces)}
        last(k) == CHOOSE i \in 1..Len(pieces) :
                      /\ SplitKey(i - 1) = k
                      /\ \A j \in 1..Len(pieces) : SplitKey(j - 1) = k => j <= i
    IN  Ok([k \in keys |-> pieces[last(k)]])

\* the dynamic values (gtmpl_value::Value) and an Arc<Any> that holds none:
\* a record with the variant t and its payload (n a number, s a string, l the
\* elements of an array), the payloads of the other variants left empty
Nil == [t |-> "Nil", n |-> 0, s |-> <<>>, l |-> <<>>]
Number(i) == [t |-> "Number", n |-> i, s |-> <<>>, l |-> <<>>]
String(str) == [t |-> "String", n |-> 0, s |-> str, l |-> <<>>]
Array(list) == [t |-> "Array", n |-> 0, s |-> <<>>, l |-> list]
Opaque == [t |-> "Opaque", n |-> 0, s |-> <<>>, l |-> <<>>]

\* downcast_ref::<Value>()
DowncastOk(a) == a.t # "Opaque"

\* from_value::<String>: only the String variant converts
FromValueString(a) == IF a.t = "String" THEN Ok(a.s) ELSE None

\* Value's to_string on the elements the model puts in arrays
ValueToString(v) == IF v.t = "String" THEN v.s ELSE Decimal(v.n)

\* itertools::join
RECURSIVE ItertoolsJoin(_, _)
ItertoolsJoin(list, sep) ==
    IF list = <<>> THEN <<>>
    ELSE IF Len(list) = 1 THEN list[1]
    ELSE list[1] \o sep \o ItertoolsJoin(Tail(list), sep)

\* join with the second argument's variant tested before the first argument
\* is converted
join_array_first(a) ==
    IF Len(a) # 2 THEN Err("two arguments required")
    ELSE IF ~DowncastOk(a[1]) THEN Err("unable to downcast")
    ELSE IF ~DowncastOk(a[2]) THEN Err("unable to downcast")
    ELSE IF a[2].t # "Array" THEN Err("second argument must be of type Array")
    ELSE IF FromValueString(a[1]).kind # "Ok" THEN Err("unable to convert from Value")
    ELSE Ok(String(ItertoolsJoin([i \in 1..Len(a[2].l) |-> ValueToString(a[2].l[i])],
                                 FromValueString(a[1]).val)))

join(a) ==
    IF Len(a) # 2 THEN Err("two arguments required")
    ELSE IF ~DowncastOk(a[1]) THEN Err("unable to downcast")
    ELSE IF FromValueString(a[1]).kind # "Ok" THEN Err("unable to convert from Value")
    ELSE IF ~DowncastOk(a[2]) THEN Err("unable to downcast")
    ELSE IF a[2].t = "Array"
    THEN Ok(String(ItertoolsJoin([i \in 1..Len(a[2].l) |-> ValueToString(a[2].l[i])],
                                 FromValueString(a[1]).val)))
    ELSE Err("second argument must be of type Array")

-----------------------------------------------------------------------------
(* The inputs of the model.                                                *)

\* every sequence over alphabet of at most n characters
Strs(alphabet, n) == UNION {[1..k -> alphabet] : k \in 0..n}

Letters == <<"f", "o", "o", "b", "a", "r">>
AsciiText == [i \in 1..MaxText |-> Letters[((i - 1) % 6) + 1]]
Utf8Text == [i \in 1..MaxText |-> IF i % 4 = 2 THEN "U+00E9" ELSE AsciiText[i]]

\* the texts: every contiguous piece of "foobarfoobar..." and of the same
\* text with a two-byte character at every fourth place
Texts ==
    {SubSeq(t, i, j) : i \in 1..(MaxText + 1), j \in 0..MaxText,
                       t \in {AsciiText, Utf8Text}}

IntArgs == (0 - MaxNeg)..MaxInt

Words == Strs({"a", "A", " ", "U+0130"}, MaxWord)
       \cup Strs({"b", "B", "U+00A0", "U+00C9"}, MaxWord - 1)

Plain == Strs({"a", "b", " "}, MaxStr)
Patterns == Strs({"a", "b", " "}, MaxPat)

SplitTexts == Strs({"a", "/"}, MaxSplit)
Separators == Strs({"a", "/"}, MaxPat)

ArgValues ==
    {String(<<>>), String(<<"/">>), Number(7), Nil, Opaque, Array(<<>>),
     Array(<<String(<<"a">>), String(<<"b">>)>>),
     Array(<<String(<<"a">>), Number(0 - 12), String(<<>>)>>)}

ArgLists == UNION {[1..k -> ArgValues] : k \in 0..MaxArgs}

-----------------------------------------------------------------------------
(* The state machine: a caller picks a function and its arguments, the     *)
(* call returns (or panics), and the caller goes on to the next call.      *)

Init ==
    /\ pc = "idle"
    /\ fn = "none"
    /\ ints = <<>>
    /\ strs = <<>>
    /\ args = <<>>
    /\ out = None

\* the call's arguments and its outcome, as the caller sees them
Called(f, is, ss, r) ==
    /\ pc' = "done"
    /\ fn' = f
    /\ ints' = is
    /\ strs' = ss
    /\ out' = r
    /\ UNCHANGED args

CallAbbrev ==
    /\ pc = "idle"
    /\ \E width \in IntArgs, s \in Texts :
           Called("abbrev", <<width>>, <<s>>, abbrev(width, s))

CallAbbrevboth ==
    /\ pc = "idle"
    /\ \E left \in IntArgs, right \in IntArgs, s \in Texts :
           Called("abbrevboth", <<left, right>>, <<s>>, abbrevboth(left, right, s))

CallUntitle ==
    /\ pc = "idle"
    /\ \E s \in Words : Called("untitle", <<>>, <<s>>, untitle(s))

CallSubstring ==
    /\ pc = "idle"
    /\ \E start \in IntArgs, len \in IntArgs, s \in Texts :
           Called("substring", <<start, len>>, <<s>>, substring(start, len, s))

CallTrim ==
    /\ pc = "idle"
    /\ \E s \in Words : Called("trim", <<>>, <<s>>, trim(s))

CallTrimAll ==
    /\ pc = "idle"
    /\ \E substr \in Patterns, s \in Plain :
           Called("trim_all", <<>>, <<substr, s>>, trim_all(substr, s))

CallTrimSuffix ==
    /\ pc = "idle"
    /\ \E substr \in Patterns, s \in Plain :
           Called("trim_suffix", <<>>, <<substr, s>>, trim_suffix(substr, s))

CallTrimPrefix ==
    /\ pc = "idle"
    /\ \E substr \in Patterns, s \in Plain :
           Called("trim_prefix", <<>>, <<substr, s>>, trim_prefix(substr, s))

CallSplit ==
    /\ pc = "idle"
    /\ \E sep \in Separators, orig \in SplitTexts :
           Called("split", <<>>, <<sep, orig>>, split(sep, orig))

\* the caller builds the argument list that join will borrow
BuildArgs ==
    /\ pc = "idle"
    /\ \E a \in ArgLists : args' = a
    /\ pc' = "ready"
    /\ fn' = "join"
    /\ UNCHANGED <<ints, strs, out>>

\* join(args: &[Arc<Any>]): the list is borrowed, never written
CallJoin ==
    /\ pc = "ready"
    /\ out' = join(args)
    /\ pc' = "done"
    /\ UNCHANGED <<fn, ints, strs, args>>

\* the result is consumed and the argument list discarded
Return ==
    /\ pc = "done"
    /\ pc' = "idle"
    /\ fn' = "none"
    /\ ints' = <<>>
    /\ strs' = <<>>
    /\ args' = <<>>
    /\ out' = None

Next ==
    \/ CallAbbrev
    \/ CallAbbrevboth
    \/ CallUntitle
    \/ CallSubstring
    \/ CallTrim
    \/ CallTrimAll
    \/ CallTrimSuffix
    \/ CallTrimPrefix
    \/ CallSplit
    \/ BuildArgs
    \/ CallJoin
    \/ Return

Spec == Init /\ [][Next]_vars

-----------------------------------------------------------------------------
(* Vocabulary of the properties: strings seen as bytes.                    *)

Done(f) == pc = "done" /\ fn = f

\* the UTF-8 bytes of s, each written <<character, k>>: the k-th byte of the
\* character's encoding
RECURSIVE Bytes(_)
Bytes(s) ==
    IF s = <<>> THEN <<>>
    ELSE [k \in 1..Utf8Len(Head(s)) |-> <<Head(s), k>>] \o Bytes(Tail(s))

\* byte offset i of s does not fall inside a character
OnBoundary(s, i) ==
    i = Len(Bytes(s)) \/ (i >= 0 /\ i < Len(Bytes(s)) /\ Bytes(s)[i + 1][2] = 1)

Max(a, b) == IF a > b THEN a ELSE b

-----------------------------------------------------------------------------
(* C1: trim_suffix(p, s) and trim_prefix(p, s) remove at most one          *)
(* occurrence of p: when s ends (starts) with p the result is s without    *)
(* that one trailing (leading) copy, and otherwise s unchanged.            *)
C1_TrimsAtMostOne ==
    /\ Done("trim_suffix") =>
          out = Ok(IF EndsWith(strs[2], strs[1])
                   THEN SubSeq(strs[2], 1, Len(strs[2]) - Len(strs[1]))
                   ELSE strs[2])
    /\ Done("trim_prefix") =>
          out = Ok(IF StartsWith(strs[2], strs[1])
                   THEN SubSeq(strs[2], Len(strs[1]) + 1, Len(strs[2]))
                   ELSE strs[2])

-----------------------------------------------------------------------------
\* substring's clamped arguments, as the claim names them
SubStart == Max(ints[1], 0)
SubEnd == IF ints[2] < 0 THEN Len(Bytes(strs[1])) ELSE ints[2]
SubUnchanged ==
    SubStart > SubEnd \/ SubStart > Len(Bytes(strs[1])) \/ SubEnd > Len(Bytes(strs[1]))

(* C2 as stated: substring never raises: for every start, len and s it     *)
(* returns a success value, s unchanged when start' > len' or              *)
(* start' > len(s) or len' > len(s), and otherwise the bytes of s at       *)
(* offsets start' up to len', with 0 <= start' <= len' <= len(s).          *)
C2_SubstringNeverRaises ==
    Done("substring") =>
        /\ out.kind = "Ok"
        /\ IF SubUnchanged
           THEN out.val = strs[1]
           ELSE /\ 0 <= SubStart /\ SubStart <= SubEnd /\ SubEnd <= Len(Bytes(strs[1]))
                /\ Bytes(out.val) = SubSeq(Bytes(strs[1]), SubStart + 1, SubEnd)

(* C2 amended: substring returns s unchanged when start' > len' or         *)
(* start' > len(s) or len' > len(s); otherwise 0 <= start' <= len' <=      *)
(* len(s) and, when start' and len' both lie on character boundaries of s  *)
(* (always so for an ASCII s), it returns the bytes of s at offsets start' *)
(* up to len'; when one of them falls inside a multi-byte character it     *)
(* panics instead of returning.                                            *)
C2_SubstringOnBoundaries ==
    Done("substring") =>
        IF SubUnchanged
        THEN out = Ok(strs[1])
        ELSE /\ 0 <= SubStart /\ SubStart <= SubEnd /\ SubEnd <= Len(Bytes(strs[1]))
             /\ IF OnBoundary(strs[1], SubStart) /\ OnBoundary(strs[1], SubEnd)
                THEN /\ out.kind = "Ok"
                     /\ Bytes(out.val) = SubSeq(Bytes(strs[1]), SubStart + 1, SubEnd)
                ELSE out = Panic

\* a proper, non-empty slice of a text that holds a two-byte character
C2_Witness ==
    /\ Done("substring")
    /\ ~IsAscii(strs[1])
    /\ ~SubUnchanged
    /\ SubStart > 0
    /\ out.kind = "Ok"
    /\ out.val # <<>>
    /\ out.val # strs[1]

-----------------------------------------------------------------------------
(* C3 as stated: abbrev(width, s) is never longer than max(len(s), width); *)
(* it is s unchanged when width < 4 or len(s) < width; otherwise it is the *)
(* first width-3 bytes of s followed by "...", exactly width bytes.        *)
C3_AbbrevEveryString ==
    Done("abbrev") =>
        /\ out.kind = "Ok"
        /\ Len(Bytes(out.val)) <= Max(Len(Bytes(strs[1])), ints[1])
        /\ IF ints[1] < 4 \/ Len(Bytes(strs[1])) < ints[1]
           THEN out.val = strs[1]
           ELSE /\ Bytes(out.val) = SubSeq(Bytes(strs[1]), 1, ints[1] - 3) \o Bytes(Dots)
                /\ Len(Bytes(out.val)) = ints[1]

(* C3 amended: abbrev(width, s) is s unchanged when width < 4 or           *)
(* len(s) < width; otherwise, when byte offset width-3 lies on a character *)
(* boundary of s (always so for an ASCII s), it is the first width-3 bytes *)
(* of s followed by "...", exactly width bytes, and when the offset falls  *)
(* inside a multi-byte character it panics instead of returning.  A        *)
(* returned string is never longer than max(len(s), width).                *)
C3_AbbrevOnBoundaries ==
    Done("abbrev") =>
        /\ out.kind = "Ok" => Len(Bytes(out.val)) <= Max(Len(Bytes(strs[1])), ints[1])
        /\ IF ints[1] < 4 \/ Len(Bytes(strs[1])) < ints[1]
           THEN out = Ok(strs[1])
           ELSE IF OnBoundary(strs[1], ints[1] - 3)
           THEN /\ out.kind = "Ok"
                /\ Bytes(out.val) = SubSeq(Bytes(strs[1]), 1, ints[1] - 3) \o Bytes(Dots)
                /\ Len(Bytes(out.val)) = ints[1]
           ELSE out = Panic

\* a text exactly width bytes long is abbreviated
C3_Witness ==
    /\ Done("abbrev")
    /\ ints[1] >= 4
    /\ Len(Bytes(strs[1])) = ints[1]
    /\ out.kind = "Ok"
    /\ out.val # strs[1]

-----------------------------------------------------------------------------
\* offset and maxWidth as the specification defines them, on the integers
AbOffset == Min(ints[1], Len(Bytes(strs[1])))
AbMaxWidth == Min(ints[2], Len(Bytes(strs[1])))
AbLen == Len(Bytes(strs[1]))

(* C4: with offset = min(left, len(s)) and maxWidth = min(right, len(s)),  *)
(* abbrevboth(left, right, s) is s unchanged if maxWidth < 4, or           *)
(* offset > 0 and maxWidth < 7, or len(s) <= maxWidth; in every remaining  *)
(* case where offset <= 4 it equals abbrev(maxWidth, s).                   *)
C4_AbbrevbothLikeAbbrev ==
    Done("abbrevboth") =>
        IF AbMaxWidth < 4 \/ (AbOffset > 0 /\ AbMaxWidth < 7) \/ AbLen <= AbMaxWidth
        THEN out = Ok(strs[1])
        ELSE AbOffset <= 4 => out = abbrev(AbMaxWidth, strs[1])

-----------------------------------------------------------------------------
(* C10: for every integer left and right, negative ones included, and      *)
(* every ASCII s, abbrevboth never slices outside s (0 <= begin <= end <=  *)
(* len(s), no subtraction underflows, the call returns), and a result that *)
(* differs from s is exactly maxWidth = min(right, len(s)) bytes long:     *)
(* "..." + s[offset .. offset+maxWidth-6) + "..." when offset > 4 and      *)
(* offset + maxWidth - 3 < len(s), and "..." + the last maxWidth-3 bytes   *)
(* of s when offset > 4 and offset + maxWidth - 3 >= len(s).               *)
C10_AbbrevbothInBounds ==
    Done("abbrevboth") /\ IsAscii(strs[1]) =>
        LET s == strs[1]
            plan == abbrevboth_plan(ints[1], ints[2], s)
        IN  /\ out.kind = "Ok"
            /\ ~plan.under
            /\ Fits(plan.b) /\ Fits(plan.e)
            /\ 0 <= ToInt(plan.b) /\ ToInt(plan.b) <= ToInt(plan.e)
            /\ ToInt(plan.e) <= AbLen
            /\ out.val # s =>
                  /\ Len(Bytes(out.val)) = AbMaxWidth
                  /\ (AbOffset > 4 /\ AbOffset + AbMaxWidth - 3 < AbLen) =>
                        Bytes(out.val) =
                            Bytes(Dots)
                            \o SubSeq(Bytes(s), AbOffset + 1, AbOffset + AbMaxWidth - 6)
                            \o Bytes(Dots)
                  /\ (AbOffset > 4 /\ AbOffset + AbMaxWidth - 3 >= AbLen) =>
                        Bytes(out.val) =
                            Bytes(Dots)
                            \o SubSeq(Bytes(s), AbLen - (AbMaxWidth - 3) + 1, AbLen)

\* an ASCII text abbreviated on both sides, by a middle slice
C10_Witness ==
    /\ Done("abbrevboth")
    /\ IsAscii(strs[1])
    /\ AbOffset > 4
    /\ AbOffset + AbMaxWidth - 3 < AbLen
    /\ out.kind = "Ok"
    /\ out.val # strs[1]
    /\ Len(out.val) > 7

-----------------------------------------------------------------------------
\* the number a key _N names: its decimal digits read back
DigitValue(c) == CHOOSE d \in 0..9 : Digits[d + 1] = c

RECURSIVE ParseNat(_)
ParseNat(ds) ==
    IF Len(ds) = 1 THEN DigitValue(ds[1])
    ELSE 10 * ParseNat(SubSeq(ds, 1, Len(ds) - 1)) + DigitValue(ds[Len(ds)])

IsKey(k) ==
    /\ Len(k) >= 2
    /\ k[1] = "_"
    /\ \A i \in 2..Len(k) : \E d \in 0..9 : Digits[d + 1] = k[i]
    /\ (Len(k) > 2 => k[2] # "0")

KeyNumber(k) == ParseNat(Tail(k))

(* C5: split(sep, s) returns a map whose keys are exactly _0, _1, ...,     *)
(* _(k-1), and join(sep, values in increasing numeric order of N)          *)
(* reconstructs s exactly.                                                 *)
C5_SplitJoinRoundTrip ==
    Done("split") =>
        /\ out.kind = "Ok"
        /\ LET m == out.val
               k == Cardinality(DOMAIN m)
               value(n) == m[CHOOSE key \in DOMAIN m : KeyNumber(key) = n]
           IN  /\ k >= 1
               /\ \A key \in DOMAIN m : IsKey(key)
               /\ {KeyNumber(key) : key \in DOMAIN m} = 0..(k - 1)
               /\ join(<<String(strs[1]), Array([i \in 1..k |-> String(value(i - 1))])>>)
                     = Ok(String(strs[2]))

\* a split into more than ten pieces, on a separator that occurs in the text
C5_Witness ==
    /\ Done("split")
    /\ out.kind = "Ok"
    /\ Cardinality(DOMAIN out.val) > 10

-----------------------------------------------------------------------------
\* the step in which join runs leaves the argument list as it was
C6_JoinBorrows == (pc = "ready" /\ pc' = "done") => args' = args

\* the outcome the claim lays down for an argument list
C6_Expected(a) ==
    IF Len(a) # 2 THEN Err("two arguments required")
    ELSE IF a[1].t # "String" THEN Err("unable to convert from Value")
    ELSE IF a[2].t # "Array" THEN Err("second argument must be of type Array")
    ELSE out

(* C6 as stated: join always returns a result value and surfaces the first *)
(* failure in a fixed order: the arity error if the list length is not 2;  *)
(* else the conversion error if the first argument is not the String       *)
(* variant; else "second argument must be of type Array" if the second     *)
(* argument is not the Array variant; it succeeds exactly when the length  *)
(* is 2, the first argument a String and the second an Array.              *)
(* In every case the argument list is left unchanged.                      *)
C6_JoinFailureOrder ==
    /\ [](Done("join") =>
            /\ out.kind \in {"Ok", "Err"}
            /\ out = C6_Expected(args)
            /\ out.kind = "Ok" <=>
                  (Len(args) = 2 /\ args[1].t = "String" /\ args[2].t = "Array"))
    /\ [][C6_JoinBorrows]_vars

\* the outcome with the downcast of each argument in its place
C6_ExpectedWithDowncast(a) ==
    IF Len(a) # 2 THEN Err("two arguments required")
    ELSE IF a[1].t = "Opaque" THEN Err("unable to downcast")
    ELSE IF a[1].t # "String" THEN Err("unable to convert from Value")
    ELSE IF a[2].t = "Opaque" THEN Err("unable to downcast")
    ELSE IF a[2].t # "Array" THEN Err("second argument must be of type Array")
    ELSE out

(* C6 amended: join always returns a result value and surfaces the first   *)
(* failure in a fixed order: the arity error if the list length is not 2;  *)
(* else the downcast error if the first argument holds no dynamic value;   *)
(* else the conversion error if it is not the String variant (whatever the *)
(* second argument is); else the downcast error if the second argument     *)
(* holds no dynamic value; else "second argument must be of type Array" if *)
(* it is not the Array variant; it succeeds exactly when the length is 2,  *)
(* the first argument a String and the second an Array.  In every case the *)
(* argument list is left unchanged.                                        *)
C6_JoinFailureOrderWithDowncast ==
    /\ [](Done("join") =>
            /\ out.kind \in {"Ok", "Err"}
            /\ out = C6_ExpectedWithDowncast(args)
            /\ out.kind = "Ok" <=>
                  (Len(args) = 2 /\ args[1].t = "String" /\ args[2].t = "Array"))
    /\ [][C6_JoinBorrows]_vars

\* neither argument is of the right variant: the first one's failure shows
C6_Witness ==
    /\ Done("join")
    /\ Len(args) = 2
    /\ args[1].t = "Number"
    /\ args[2].t = "Nil"
    /\ out = Err("unable to convert from Value")

-----------------------------------------------------------------------------
\* position i of s starts a whitespace-delimited run
StartsRun(s, i) == ~IsWhitespace(s[i]) /\ (i = 1 \/ IsWhitespace(s[i - 1]))

\* s with the first character of every run replaced by its lower-case mapping
RECURSIVE RunsLowered(_, _)
RunsLowered(s, i) ==
    IF i > Len(s) THEN <<>>
    ELSE (IF StartsRun(s, i) THEN ToLowercase(s[i]) ELSE <<s[i]>>)
         \o RunsLowered(s, i + 1)

(* C7 as stated: untitle(s) has the same number of characters as s and     *)
(* differs from s only at the first non-whitespace character of the string *)
(* and at non-whitespace characters that follow a whitespace character; at *)
(* exactly those positions the character is lower-cased and every other    *)
(* character is unchanged; untitle(untitle(s)) == untitle(s).              *)
C7_UntitleSameLength ==
    Done("untitle") =>
        /\ out.kind = "Ok"
        /\ Len(out.val) = Len(strs[1])
        /\ \A i \in 1..Len(strs[1]) :
              IF StartsRun(strs[1], i)
              THEN <<out.val[i]>> = ToLowercase(strs[1][i])
              ELSE out.val[i] = strs[1][i]
        /\ untitle(out.val) = out

(* C7 amended: untitle(s) is s with each character that is the first       *)
(* non-whitespace character of the string, or a non-whitespace character   *)
(* that follows a whitespace character, replaced by its lower-case mapping *)
(* and every other character (whitespace included) unchanged; it has the   *)
(* same number of characters as s when each replaced character lower-cases *)
(* to a single character (U+0130 lower-cases to two, and the result is     *)
(* then longer than s); untitle(untitle(s)) == untitle(s).                 *)
C7_UntitleLowersRunStarts ==
    Done("untitle") =>
        /\ out.kind = "Ok"
        /\ out.val = RunsLowered(strs[1], 1)
        /\ (\A i \in 1..Len(strs[1]) :
                StartsRun(strs[1], i) => Len(ToLowercase(strs[1][i])) = 1)
              => /\ Len(out.val) = Len(strs[1])
                 /\ \A i \in 1..Len(strs[1]) :
                       IF StartsRun(strs[1], i)
                       THEN <<out.val[i]>> = ToLowercase(strs[1][i])
                       ELSE out.val[i] = strs[1][i]
        /\ untitle(out.val) = out

\* an upper-case letter lowered at the start of a run and kept inside one
C7_Witness ==
    /\ Done("untitle")
    /\ \E i, j \in 1..Len(strs[1]) :
          /\ i > 1
          /\ StartsRun(strs[1], i)
          /\ ~StartsRun(strs[1], j)
          /\ strs[1][i] = "A"
          /\ strs[1][j] = "A"
          /\ out.val[i] = "a"
          /\ out.val[j] = "A"

-----------------------------------------------------------------------------
\* r is s without its longest prefix and longest suffix of characters that
\* satisfy strip
Stripped(r, s, strip(_)) ==
    /\ \E i \in 1..(Len(s) + 1), j \in 0..Len(s) :
          /\ i <= j + 1
          /\ r = SubSeq(s, i, j)
          /\ \A k \in 1..(i - 1) : strip(s[k])
          /\ \A k \in (j + 1)..Len(s) : strip(s[k])
    /\ r # <<>> => ~strip(r[1]) /\ ~strip(r[Len(r)])
    /\ (\A k \in 1..Len(s) : strip(s[k])) => r = <<>>

(* C8: trim_all(chars, s) is the contiguous substring of s left when the   *)
(* longest prefix and the longest suffix made only of members of chars are *)
(* removed: it neither starts nor ends with a member of chars, interior    *)
(* members are kept, and it is empty when every character of s is in chars.*)
C8_TrimAllStripsBothEnds ==
    Done("trim_all") =>
        /\ out.kind = "Ok"
        /\ LET InChars(c) == \E i \in 1..Len(strs[1]) : strs[1][i] = c
           IN  Stripped(out.val, strs[2], InChars)

\* a member stripped from the end, the same member kept inside
C8_Witness ==
    /\ Done("trim_all")
    /\ out.kind = "Ok"
    /\ Len(out.val) = 3
    /\ Len(strs[2]) = 4
    /\ strs[2][4] = out.val[2]
    /\ \E i \in 1..Len(strs[1]) : strs[1][i] = out.val[2]

-----------------------------------------------------------------------------
(* C9: trim(trim(s)) == trim(s), and trim(s) is s without its leading and  *)
(* trailing whitespace: no whitespace at either end, interior whitespace   *)
(* kept.                                                                   *)
C9_TrimIdempotent ==
    Done("trim") =>
        /\ out.kind = "Ok"
        /\ trim(out.val) = out
        /\ Stripped(out.val, strs[1], IsWhitespace)

\* whitespace stripped from both ends and kept inside
C9_Witness ==
    /\ Done("trim")
    /\ out.kind = "Ok"
    /\ Len(strs[1]) = Len(out.val) + 2
    /\ IsWhitespace(strs[1][1])
    /\ IsWhitespace(strs[1][Len(strs[1])])
    /\ \E k \in 1..Len(out.val) : IsWhitespace(out.val[k])

====
